---------------------------- MODULE Spec2Model ----------------------------
(***************************************************************************)
(* The referendum pipeline of pandas_questions.py: load_data,              *)
(* merge_regions_and_departments, merge_referendum_and_areas,              *)
(* compute_referendum_result_by_regions and plot_referendum_map, run in    *)
(* the order of the __main__ block.                                        *)
(*                                                                         *)
(* A text is a sequence of one-character strings.  A DataFrame is a        *)
(* sequence of rows, a row a record of cells.  A cell of a code or name    *)
(* column is [dtype, text]: an int64 cell holds the canonical decimal      *)
(* numeral of its value (what str() prints), an object cell holds the      *)
(* string, and NaN is the missing value.  Vote counts are naturals.        *)
(* The files hold a value in every cell.  A numeric column that a merge    *)
(* gives a missing value is upcast to float64 by pandas; its cells keep    *)
(* their numerals here, 1 and 1.0 being the same key.                      *)
(***************************************************************************)
EXTENDS Integers, Sequences, FiniteSets, TLC

VARIABLES
    regions_csv,              \* data/regions.csv: rows [code, name] of texts
    departments_csv,          \* data/departments.csv: rows [code, name, region_code]
    referendum_csv,           \* data/referendum.csv: rows [Department_code, counts]
    regions_geojson,          \* data/regions.geojson: rows [nom]
    referendum,               \* __main__: the frames load_data returned
    df_reg,
    df_dep,
    regions_and_departments,  \* __main__: result of merge_regions_and_departments
    referendum_and_areas,     \* __main__: result of merge_referendum_and_areas
    referendum_results,       \* __main__: result of compute_referendum_result_by_regions
    gdf_referendum,           \* __main__: result of plot_referendum_map
    raised,                   \* the exception that ended the run at pc, "" if none
    pc                        \* position in the __main__ block

vars == <<regions_csv, departments_csv, referendum_csv, regions_geojson,
          referendum, df_reg, df_dep, regions_and_departments,
          referendum_and_areas, referendum_results, gdf_referendum,
          raised, pc>>

files == <<regions_csv, departments_csv, referendum_csv, regions_geojson>>

-----------------------------------------------------------------------------
(* Bounds of the model.                                                    *)

MaxRegions == 2
MaxDepartments == 2
MaxBallots == 2
MaxCount == 1

(* The width str.zfill pads to.                                            *)
ZfillWidth == 2

-----------------------------------------------------------------------------
(* Texts and cells.                                                        *)

Digits == {"0", "1", "2", "3", "4", "5", "6", "7", "8", "9"}

\* Code points in ascending order, for the characters the model uses.
CharOrder == <<"0", "1", "2", "3", "4", "5", "6", "7", "8", "9",
               "A", "D", "X", "Y", "Z", "a", "n">>

Ord(c) == CHOOSE i \in 1..Len(CharOrder) : CharOrder[i] = c

IsNumeral(t) == Len(t) > 0 /\ \A i \in 1..Len(t) : t[i] \in Digits

RECURSIVE StripZeros(_)
StripZeros(t) == IF Len(t) > 1 /\ t[1] = "0" THEN StripZeros(Tail(t)) ELSE t

StrCell(t) == [dtype |-> "object", text |-> t]
IntCell(t) == [dtype |-> "int64", text |-> StripZeros(t)]
NaN == [dtype |-> "float64", text |-> <<>>]

IsNull(c) == c = NaN

\* Up to n rows drawn from the set rows.
Tables(rows, n) == UNION {[1..k -> rows] : k \in 0..n}

Column(df, f) == [i \in 1..Len(df) |-> df[i][f]]

RECURSIVE Flatten(_)
Flatten(ss) == IF ss = <<>> THEN <<>> ELSE Head(ss) \o Flatten(Tail(ss))

-----------------------------------------------------------------------------
(* pandas.read_csv: a column whose every value is a numeral is parsed as   *)
(* int64, and leading zeros are lost; any other column keeps its strings.  *)

ReadColumn(texts) ==
    IF Len(texts) > 0 /\ \A i \in 1..Len(texts) : IsNumeral(texts[i])
    THEN [i \in 1..Len(texts) |-> IntCell(texts[i])]
    ELSE [i \in 1..Len(texts) |-> StrCell(texts[i])]

ReadRegions(file) ==
    [i \in 1..Len(file) |->
        [code |-> ReadColumn(Column(file, "code"))[i],
         name |-> ReadColumn(Column(file, "name"))[i]]]

ReadDepartments(file) ==
    [i \in 1..Len(file) |->
        [code |-> ReadColumn(Column(file, "code"))[i],
         name |-> ReadColumn(Column(file, "name"))[i],
         region_code |-> ReadColumn(Column(file, "region_code"))[i]]]

ReadReferendum(file) ==
    [i \in 1..Len(file) |->
        [file[i] EXCEPT
            !.Department_code = ReadColumn(Column(file, "Department_code"))[i]]]

-----------------------------------------------------------------------------
(* Series.astype(str).str.zfill(2), and the key check of DataFrame.merge.  *)

AsStr(c) == IF IsNull(c) THEN StrCell(<<"n", "a", "n">>) ELSE StrCell(c.text)

RECURSIVE Zfill(_, _)
Zfill(t, width) == IF Len(t) >= width THEN t ELSE Zfill(<<"0">> \o t, width)

\* Variant: astype(str) with no zfill.
NormalizeCodeNoPad(c) == AsStr(c)

NormalizeCode(c) == StrCell(Zfill(AsStr(c).text, ZfillWidth))

ColumnIsObject(col) == \E i \in 1..Len(col) : col[i].dtype = "object"

\* merge raises ValueError for an object key against a numeric key, unless
\* one of the two frames is empty.
MergeRaises(lk, rk) ==
    /\ Len(lk) > 0
    /\ Len(rk) > 0
    /\ ColumnIsObject(lk) # ColumnIsObject(rk)

-----------------------------------------------------------------------------
(* merge_regions_and_departments                                           *)

RenameRegions(regions) ==
    [i \in 1..Len(regions) |->
        [code_reg |-> regions[i].code, name_reg |-> regions[i].name]]

\* rename returns a new frame, so the assignment to code_dep does not reach
\* the caller's departments.
RenameDepartments(departments) ==
    [i \in 1..Len(departments) |->
        [code_dep |-> NormalizeCode(departments[i].code),
         name_dep |-> departments[i].name,
         region_code |-> departments[i].region_code]]

\* how='left': the department row once per region row with its key, in the
\* regions' order, and once with missing region fields when there is none.
LeftMergeRow(d, regions) ==
    LET m == SelectSeq(regions, LAMBDA r : r.code_reg = d.region_code)
    IN  IF m = <<>>
        THEN <<[code_reg |-> NaN, name_reg |-> NaN, code_dep |-> d.code_dep,
                name_dep |-> d.name_dep, region_code |-> d.region_code]>>
        ELSE [k \in 1..Len(m) |->
                [code_reg |-> m[k].code_reg, name_reg |-> m[k].name_reg,
                 code_dep |-> d.code_dep, name_dep |-> d.name_dep,
                 region_code |-> d.region_code]]

\* Variant: how='inner', a department with no region is left out.
MergeDepartmentsRegionsInner(departments, regions) ==
    Flatten([i \in 1..Len(departments) |->
                SelectSeq(LeftMergeRow(departments[i], regions),
                          LAMBDA row : ~IsNull(row.code_reg))])

MergeDepartmentsRegions(departments, regions) ==
    Flatten([i \in 1..Len(departments) |-> LeftMergeRow(departments[i], regions)])

SelectAreaColumns(merged) ==
    [i \in 1..Len(merged) |->
        [code_reg |-> merged[i].code_reg, name_reg |-> merged[i].name_reg,
         code_dep |-> merged[i].code_dep, name_dep |-> merged[i].name_dep]]

merge_regions_and_departments(regions, departments) ==
    SelectAreaColumns(
        MergeDepartmentsRegions(RenameDepartments(departments),
                                RenameRegions(regions)))

-----------------------------------------------------------------------------
(* merge_referendum_and_areas                                              *)

\* Variant: the ballot codes are left as read.
NormalizeBallotCodesNoPad(ballots) == ballots

\* Assigned into the caller's frames.
NormalizeBallotCodes(ballots) ==
    [i \in 1..Len(ballots) |->
        [ballots[i] EXCEPT !.Department_code = NormalizeCode(@)]]

NormalizeAreaCodes(areas) ==
    [i \in 1..Len(areas) |-> [areas[i] EXCEPT !.code_dep = NormalizeCode(@)]]

JoinedRow(b, a) ==
    [Department_code |-> b.Department_code, Registered |-> b.Registered,
     Abstentions |-> b.Abstentions, Null |-> b.Null,
     Choice_A |-> b.Choice_A, Choice_B |-> b.Choice_B,
     code_reg |-> a.code_reg, name_reg |-> a.name_reg,
     code_dep |-> a.code_dep, name_dep |-> a.name_dep]

\* how='inner': a ballot row once per area row with its code, in the ballots'
\* order; a ballot row with no area row is left out.
InnerMergeRow(b, areas) ==
    LET m == SelectSeq(areas, LAMBDA a : a.code_dep = b.Department_code)
    IN  [k \in 1..Len(m) |-> JoinedRow(b, m[k])]

MergeReferendumAreas(ballots, areas) ==
    Flatten([i \in 1..Len(ballots) |-> InnerMergeRow(ballots[i], areas)])

\* The columns that can hold a missing value; the counts are read from a file
\* with a number in every cell.
CellColumns == {"Department_code", "code_reg", "name_reg", "code_dep", "name_dep"}

\* Variant: no dropna.
DropNaNone(merged) == merged

DropNa(merged) ==
    SelectSeq(merged, LAMBDA row : \A f \in CellColumns : ~IsNull(row[f]))

\* Variant: how='left' with no dropna, a ballot row with no area row is kept.
merge_referendum_and_areas_left(ballots, areas) ==
    LET bs == NormalizeBallotCodes(ballots)
        as == NormalizeAreaCodes(areas)
        missing == [code_reg |-> NaN, name_reg |-> NaN, code_dep |-> NaN,
                    name_dep |-> NaN]
    IN  Flatten([i \in 1..Len(bs) |->
                    IF InnerMergeRow(bs[i], as) = <<>>
                    THEN <<JoinedRow(bs[i], missing)>>
                    ELSE InnerMergeRow(bs[i], as)])

merge_referendum_and_areas(ballots, areas) ==
    DropNa(MergeReferendumAreas(NormalizeBallotCodes(ballots),
                                NormalizeAreaCodes(areas)))

-----------------------------------------------------------------------------
(* compute_referendum_result_by_regions                                    *)

RECURSIVE TextLess(_, _)
TextLess(s, t) ==
    IF s = <<>> THEN t # <<>>
    ELSE IF t = <<>> THEN FALSE
    ELSE IF Ord(Head(s)) # Ord(Head(t)) THEN Ord(Head(s)) < Ord(Head(t))
    ELSE TextLess(Tail(s), Tail(t))

\* Numbers compare by value, strings by code point.
CellLess(a, b) ==
    IF a.dtype = "int64" /\ b.dtype = "int64"
    THEN Len(a.text) < Len(b.text)
         \/ (Len(a.text) = Len(b.text) /\ TextLess(a.text, b.text))
    ELSE TextLess(a.text, b.text)

KeyLess(k1, k2) ==
    CellLess(k1[1], k2[1]) \/ (k1[1] = k2[1] /\ CellLess(k1[2], k2[2]))

RECURSIVE SortKeys(_)
SortKeys(S) ==
    IF S = {} THEN <<>>
    ELSE LET m == CHOOSE k \in S : \A o \in S \ {k} : KeyLess(k, o)
         IN  <<m>> \o SortKeys(S \ {m})

\* groupby(['code_reg', 'name_reg']): one group per pair of keys present, a
\* row with a missing key in no group, the groups in the order of their keys.
GroupKeys(rows) ==
    SortKeys({<<rows[i].code_reg, rows[i].name_reg>> :
                 i \in {j \in 1..Len(rows) :
                           ~IsNull(rows[j].code_reg) /\ ~IsNull(rows[j].name_reg)}})

\* Variant: count() in place of sum().
GroupCount(rows, f) == Len(rows)

RECURSIVE GroupSum(_, _)
GroupSum(rows, f) ==
    IF rows = <<>> THEN 0 ELSE Head(rows)[f] + GroupSum(Tail(rows), f)

compute_referendum_result_by_regions(rows) ==
    LET keys == GroupKeys(rows)
    IN  [k \in 1..Len(keys) |->
            LET g == SelectSeq(rows,
                        LAMBDA r : <<r.code_reg, r.name_reg>> = keys[k])
            IN  [code_reg |-> keys[k][1],
                 name_reg |-> keys[k][2],
                 Registered |-> GroupSum(g, "Registered"),
                 Abstentions |-> GroupSum(g, "Abstentions"),
                 Null |-> GroupSum(g, "Null"),
                 Choice_A |-> GroupSum(g, "Choice_A"),
                 Choice_B |-> GroupSum(g, "Choice_B")]]

-----------------------------------------------------------------------------
(* plot_referendum_map.  A float is the quotient num/den of two naturals:  *)
(* 0/0 is NaN and n/0, n > 0, is inf.                                      *)

Float(n) == [num |-> n, den |-> 1]
FloatNaN == [num |-> 0, den |-> 0]

IsFloatNaN(x) == x.num = 0 /\ x.den = 0

FloatAdd(x, y) ==
    IF IsFloatNaN(x) \/ IsFloatNaN(y) THEN FloatNaN
    ELSE [num |-> x.num * y.den + y.num * x.den, den |-> x.den * y.den]

FloatDiv(x, y) ==
    IF IsFloatNaN(x) \/ IsFloatNaN(y) THEN FloatNaN
    ELSE [num |-> x.num * y.den, den |-> x.den * y.num]

\* gpd.read_file: the names of a GeoJSON file are strings.
ReadGeo(file) == [i \in 1..Len(file) |-> [nom |-> StrCell(file[i].nom)]]

\* how='left' on nom = name_reg: a geometry with no region result keeps
\* missing values in the result columns.
GeoMergeRow(g, results) ==
    LET m == SelectSeq(results, LAMBDA r : r.name_reg = g.nom)
    IN  IF m = <<>>
        THEN <<[nom |-> g.nom, name_reg |-> NaN, Registered |-> FloatNaN,
                Abstentions |-> FloatNaN, Null |-> FloatNaN,
                Choice_A |-> FloatNaN, Choice_B |-> FloatNaN]>>
        ELSE [k \in 1..Len(m) |->
                [nom |-> g.nom, name_reg |-> m[k].name_reg,
                 Registered |-> Float(m[k].Registered),
                 Abstentions |-> Float(m[k].Abstentions),
                 Null |-> Float(m[k].Null),
                 Choice_A |-> Float(m[k].Choice_A),
                 Choice_B |-> Float(m[k].Choice_B)]]

MergeGeoResults(gdf, results) ==
    Flatten([i \in 1..Len(gdf) |-> GeoMergeRow(gdf[i], results)])

\* Variant: Choice A over Choice B.
RatioOverChoiceB(choice_a, choice_b) == FloatDiv(choice_a, choice_b)

Ratio(choice_a, choice_b) == FloatDiv(choice_a, FloatAdd(choice_a, choice_b))

WithRatio(gdf_merged) ==
    [i \in 1..Len(gdf_merged) |->
        [nom |-> gdf_merged[i].nom, name_reg |-> gdf_merged[i].name_reg,
         Registered |-> gdf_merged[i].Registered,
         Abstentions |-> gdf_merged[i].Abstentions,
         Null |-> gdf_merged[i].Null,
         Choice_A |-> gdf_merged[i].Choice_A,
         Choice_B |-> gdf_merged[i].Choice_B,
         ratio |-> Ratio(gdf_merged[i].Choice_A, gdf_merged[i].Choice_B)]]

-----------------------------------------------------------------------------
(* The __main__ block.                                                     *)

Load ==
    /\ pc = "start"
    /\ raised = ""
    /\ referendum' = ReadReferendum(referendum_csv)
    /\ df_reg' = ReadRegions(regions_csv)
    /\ df_dep' = ReadDepartments(departments_csv)
    /\ pc' = "loaded"
    /\ UNCHANGED <<files, regions_and_departments, referendum_and_areas,
                   referendum_results, gdf_referendum, raised>>

Resolve ==
    /\ pc = "loaded"
    /\ raised = ""
    /\ IF MergeRaises(Column(df_dep, "region_code"), Column(df_reg, "code"))
       THEN /\ raised' = "ValueError"
            /\ UNCHANGED <<pc, regions_and_departments>>
       ELSE /\ regions_and_departments' =
                   merge_regions_and_departments(df_reg, df_dep)
            /\ pc' = "resolved"
            /\ UNCHANGED raised
    /\ UNCHANGED <<files, referendum, df_reg, df_dep, referendum_and_areas,
                   referendum_results, gdf_referendum>>

Join ==
    /\ pc = "resolved"
    /\ raised = ""
    /\ referendum' = NormalizeBallotCodes(referendum)
    /\ regions_and_departments' = NormalizeAreaCodes(regions_and_departments)
    /\ referendum_and_areas' =
           merge_referendum_and_areas(referendum, regions_and_departments)
    /\ pc' = "joined"
    /\ UNCHANGED <<files, df_reg, df_dep, referendum_results, gdf_referendum,
                   raised>>

Aggregate ==
    /\ pc = "joined"
    /\ raised = ""
    /\ referendum_results' =
           compute_referendum_result_by_regions(referendum_and_areas)
    /\ pc' = "aggregated"
    /\ UNCHANGED <<files, referendum, df_reg, df_dep, regions_and_departments,
                   referendum_and_areas, gdf_referendum, raised>>

\* The merge, the ratio, then the drawing, which returns or raises.
Plot ==
    /\ pc = "aggregated"
    /\ raised = ""
    /\ LET gdf == ReadGeo(regions_geojson)
       IN  IF MergeRaises(Column(gdf, "nom"),
                          Column(referendum_results, "name_reg"))
           THEN /\ raised' = "ValueError"
                /\ UNCHANGED <<pc, gdf_referendum>>
           ELSE \E rendered \in BOOLEAN :
                   IF rendered
                   THEN /\ gdf_referendum' =
                               WithRatio(MergeGeoResults(gdf, referendum_results))
                        /\ pc' = "done"
                        /\ UNCHANGED raised
                   ELSE /\ raised' = "RenderError"
                        /\ UNCHANGED <<pc, gdf_referendum>>
    /\ UNCHANGED <<files, referendum, df_reg, df_dep, regions_and_departments,
                   referendum_and_areas, referendum_results>>

Next == Load \/ Resolve \/ Join \/ Aggregate \/ Plot

-----------------------------------------------------------------------------
(* The files the run starts from.                                          *)

RegionRow(code, name) == [code |-> code, name |-> name]

DepartmentRow(code, region_code) ==
    [code |-> code, name |-> <<"D">>, region_code |-> region_code]

\* Every registered voter abstains, votes null or makes one of the choices.
BallotRow(code, a, b) ==
    [Department_code |-> code, Registered |-> 3 + a + b, Abstentions |-> 1,
     Null |-> 2, Choice_A |-> a, Choice_B |-> b]

ChoiceACounts == {100 * k : k \in 0..MaxCount}
ChoiceBCounts == {300 * k : k \in 0..MaxCount}

GeoFile == <<[nom |-> <<"X">>], [nom |-> <<"Y">>], [nom |-> <<"Z">>]>>

InitWith(regionFiles, departmentFiles, referendumFiles) ==
    /\ regions_csv \in regionFiles
    /\ departments_csv \in departmentFiles
    /\ referendum_csv \in referendumFiles
    /\ regions_geojson = GeoFile
    /\ referendum = <<>>
    /\ df_reg = <<>>
    /\ df_dep = <<>>
    /\ regions_and_departments = <<>>
    /\ referendum_and_areas = <<>>
    /\ referendum_results = <<>>
    /\ gdf_referendum = <<>>
    /\ raised = ""
    /\ pc = "start"

\* Ballot codes as the referendum file writes them: unpadded, with a letter
\* code and a code of no department.
Init ==
    InitWith(
        Tables({RegionRow(c, <<"X">>) : c \in {<<"1">>, <<"A">>}}, MaxRegions),
        Tables({DepartmentRow(c, r) :
                   c \in {<<"0", "1">>, <<"2", "A">>}, r \in {<<"1">>, <<"A">>}},
               MaxDepartments),
        Tables({BallotRow(c, 100, 300) :
                   c \in {<<"1">>, <<"2", "A">>, <<"Z", "Z">>}}, MaxBallots))

Spec == Init /\ [][Next]_vars

\* Region and department codes of either width, padded or not.
InitAreas ==
    InitWith(
        Tables({RegionRow(c, <<"X">>) : c \in {<<"1">>, <<"0", "1">>, <<"A">>}},
               MaxRegions),
        Tables({DepartmentRow(c, r) :
                   c \in {<<"0", "1">>, <<"0", "0", "1">>, <<"2", "A">>},
                   r \in {<<"1">>, <<"A">>}},
               MaxDepartments),
        Tables({BallotRow(<<"1">>, 100, 300)}, MaxBallots))

SpecAreas == InitAreas /\ [][Next]_vars

\* Two departments in one or two regions, and ballots of every count.
InitVotes ==
    InitWith(
        {<<RegionRow(<<"1">>, <<"X">>), RegionRow(<<"2">>, <<"Y">>)>>,
         <<RegionRow(<<"1">>, <<"X">>), RegionRow(<<"1">>, <<"Y">>)>>,
         <<RegionRow(<<"1">>, <<"X">>), RegionRow(<<"2">>, <<"X">>)>>},
        {<<DepartmentRow(<<"0", "1">>, <<"1">>), DepartmentRow(<<"0", "2">>, <<"2">>)>>,
         <<DepartmentRow(<<"0", "1">>, <<"1">>), DepartmentRow(<<"0", "2">>, <<"1">>)>>},
        Tables({BallotRow(c, a, b) :
                   c \in {<<"1">>, <<"2">>}, a \in ChoiceACounts, b \in ChoiceBCounts},
               MaxBallots))

SpecVotes == InitVotes /\ [][Next]_vars

-----------------------------------------------------------------------------
(* Properties of merge_regions_and_departments, checked under SpecAreas.   *)

Rows(df) == 1..Len(df)

RegionCodesDistinct ==
    \A i, j \in Rows(df_reg) : df_reg[i].code = df_reg[j].code => i = j

\* C1 as stated: for every region table, the Area Resolver returns exactly as
\* many rows as the department table has.
C1_RowCountEqualsDepartments ==
    pc = "resolved" => Len(regions_and_departments) = Len(df_dep)

\* C1 amended: the Area Resolver never returns fewer rows than the department
\* table has, and returns exactly as many when no two region rows carry the
\* same code.
C1_RowCountWithDistinctRegions ==
    pc = "resolved" =>
        /\ Len(regions_and_departments) >= Len(df_dep)
        /\ RegionCodesDistinct => Len(regions_and_departments) = Len(df_dep)

\* Two regions of distinct codes, one department resolved and one not.
C1_Witness ==
    /\ pc = "resolved"
    /\ RegionCodesDistinct
    /\ Len(df_reg) = 2
    /\ Len(regions_and_departments) = 2
    /\ IsNull(regions_and_departments[1].code_reg)
    /\ ~IsNull(regions_and_departments[2].code_reg)

DepartmentCodesReadAsNumbers ==
    /\ Len(departments_csv) > 0
    /\ \A i \in Rows(departments_csv) : IsNumeral(departments_csv[i].code)

OutputHasCode(t) ==
    \E k \in Rows(regions_and_departments) :
        regions_and_departments[k].code_dep = StrCell(t)

\* C7 as stated: every department code, 2 or 3 characters wide in the file,
\* is in the Area Resolver's output as the same string, leading zeros
\* included, whether read as a number or as a string.
C7_OriginalWidthRetained ==
    pc = "resolved" =>
        \A i \in Rows(departments_csv) : OutputHasCode(departments_csv[i].code)

\* C7 amended: every code_dep of the output is a string of at least 2
\* characters, and a department code of the file is in the output unchanged
\* when the codes were read as strings, or is 2 characters wide, or has no
\* leading zero.
C7_WidthRetainedUnlessNumberOfThree ==
    pc = "resolved" =>
        /\ \A k \in Rows(regions_and_departments) :
              /\ regions_and_departments[k].code_dep.dtype = "object"
              /\ Len(regions_and_departments[k].code_dep.text) >= 2
        /\ \A i \in Rows(departments_csv) :
              LET t == departments_csv[i].code
              IN  (~DepartmentCodesReadAsNumbers \/ Len(t) = 2 \/ Head(t) # "0")
                      => OutputHasCode(t)

\* The code "01" read as the number 1 and returned as "01".
C7_Witness ==
    /\ pc = "resolved"
    /\ DepartmentCodesReadAsNumbers
    /\ \E i \in Rows(df_dep) :
          /\ departments_csv[i].code = <<"0", "1">>
          /\ df_dep[i].code = IntCell(<<"1">>)
    /\ OutputHasCode(<<"0", "1">>)

PaddedKey(c) == Zfill(c.text, 2)

\* The left join on the zero-padded string forms of the two keys.
PaddedKeyMerge(regions, departments) ==
    Flatten([i \in 1..Len(departments) |->
        LET m == SelectSeq(regions,
                    LAMBDA r : PaddedKey(r.code) = PaddedKey(departments[i].region_code))
        IN  IF m = <<>>
            THEN <<[code_reg |-> NaN, name_reg |-> NaN,
                    code_dep |-> NormalizeCode(departments[i].code),
                    name_dep |-> departments[i].name]>>
            ELSE [k \in 1..Len(m) |->
                    [code_reg |-> m[k].code, name_reg |-> m[k].name,
                     code_dep |-> NormalizeCode(departments[i].code),
                     name_dep |-> departments[i].name]]])

\* C10: whatever type or padding the two tables store their keys with, a
\* department row has a region's code_reg and name_reg exactly when the
\* zero-padded strings of the two keys are equal.
C10_KeysComparedPadded ==
    pc = "resolved" => regions_and_departments = PaddedKeyMerge(df_reg, df_dep)

-----------------------------------------------------------------------------
(* Properties of merge_referendum_and_areas, checked under Spec.           *)

\* The ballot table as loaded, before the Ballot Joiner is called.
LoadedBallots == ReadReferendum(referendum_csv)

PaddedBallotCode(i) == NormalizeCode(LoadedBallots[i].Department_code)

AreaHasCode(c) ==
    \E k \in Rows(regions_and_departments) :
        regions_and_departments[k].code_dep = c

AreaCodesDistinct ==
    \A j, k \in Rows(regions_and_departments) :
        regions_and_departments[j].code_dep = regions_and_departments[k].code_dep
            => j = k

BallotCodesDistinct ==
    \A i, j \in Rows(LoadedBallots) :
        PaddedBallotCode(i) = PaddedBallotCode(j) => i = j

AreasResolved ==
    \A k \in Rows(regions_and_departments) :
        /\ ~IsNull(regions_and_departments[k].code_reg)
        /\ ~IsNull(regions_and_departments[k].name_reg)

\* The area rows whose department code some ballot row carries.
MatchedAreaRows ==
    {k \in Rows(regions_and_departments) :
        \E i \in Rows(LoadedBallots) :
            PaddedBallotCode(i) = regions_and_departments[k].code_dep}

\* The ballot rows whose department code some area row carries.
MatchedBallotRows ==
    {i \in Rows(LoadedBallots) : AreaHasCode(PaddedBallotCode(i))}

Min(a, b) == IF a <= b THEN a ELSE b

\* C2 as stated: for every ballot table and area table, the Ballot Joiner
\* returns at most min(ballot rows, matched area rows) rows.
C2_AtMostMinOfBallotsAndAreas ==
    pc = "joined" =>
        Len(referendum_and_areas) <=
            Min(Len(LoadedBallots), Cardinality(MatchedAreaRows))

\* C2 amended: the Ballot Joiner returns at most as many rows as the ballot
\* table has when no two area rows carry the same department code, and at
\* most as many as there are matched area rows when no two ballot rows carry
\* the same department code.
C2_AtMostWithDistinctCodes ==
    pc = "joined" =>
        /\ AreaCodesDistinct =>
              Len(referendum_and_areas) <= Len(LoadedBallots)
        /\ BallotCodesDistinct =>
              Len(referendum_and_areas) <= Cardinality(MatchedAreaRows)

\* Distinct codes on both sides, one ballot row joined and one left out.
C2_Witness ==
    /\ pc = "joined"
    /\ AreaCodesDistinct
    /\ BallotCodesDistinct
    /\ Len(LoadedBallots) = 2
    /\ Len(regions_and_departments) = 2
    /\ Len(referendum_and_areas) = 1

\* C3: every row the Ballot Joiner returns carries the department code of
\* some area row and no missing value, and a ballot row whose code no area
\* row carries is in no returned row.
C3_RowsResolvedAndComplete ==
    pc = "joined" =>
        /\ \A n \in Rows(referendum_and_areas) :
              /\ AreaHasCode(referendum_and_areas[n].Department_code)
              /\ \A f \in CellColumns : ~IsNull(referendum_and_areas[n][f])
        /\ \A i \in Rows(LoadedBallots) :
              ~AreaHasCode(PaddedBallotCode(i)) =>
                  \A n \in Rows(referendum_and_areas) :
                      referendum_and_areas[n].Department_code # PaddedBallotCode(i)

\* A "ZZ" ballot left out, a ballot of an unresolved department dropped, and
\* a ballot row returned.
C3_Witness ==
    /\ pc = "joined"
    /\ \E i \in Rows(referendum_csv) :
          referendum_csv[i].Department_code = <<"Z", "Z">>
    /\ \E k \in MatchedAreaRows : IsNull(regions_and_departments[k].code_reg)
    /\ Len(referendum_and_areas) >= 1

DepartmentCodesDistinct ==
    \A i, j \in Rows(df_dep) : df_dep[i].code = df_dep[j].code => i = j

\* The ballot rows whose code, zero-padded, is that of a department.
BallotRowsOfDepartments ==
    {i \in Rows(LoadedBallots) :
        \E j \in Rows(df_dep) : NormalizeCode(df_dep[j].code) = PaddedBallotCode(i)}

\* C4 as stated: for a department table of distinct codes and any region
\* table, the Ballot Joiner returns exactly as many rows as there are ballot
\* rows carrying the code of a department.
C4_ExactlyTheMatchingBallots ==
    (pc = "joined" /\ DepartmentCodesDistinct) =>
        Len(referendum_and_areas) = Cardinality(BallotRowsOfDepartments)

\* C4 amended: when the Area Resolver's output has distinct department codes
\* and no missing region field (every department resolved to exactly one
\* region), the Ballot Joiner returns exactly as many rows as there are
\* ballot rows whose zero-padded code is that of a department.
C4_ExactlyWhenEveryDepartmentResolved ==
    (pc = "joined" /\ AreaCodesDistinct /\ AreasResolved) =>
        Len(referendum_and_areas) = Cardinality(MatchedBallotRows)

\* Two resolved departments, two ballot rows, one of them of a department.
C4_Witness ==
    /\ pc = "joined"
    /\ AreaCodesDistinct
    /\ AreasResolved
    /\ Len(regions_and_departments) = 2
    /\ Len(LoadedBallots) = 2
    /\ Cardinality(MatchedBallotRows) = 1
    /\ Len(referendum_and_areas) = 1

\* C8: a call of the Area Resolver, the Ballot Joiner or the Regional
\* Aggregator leaves the tables passed to it as they were.
C8_ArgumentsUnchanged ==
    [][/\ Resolve => UNCHANGED <<df_reg, df_dep>>
       /\ Join => UNCHANGED <<referendum, regions_and_departments>>
       /\ Aggregate => UNCHANGED referendum_and_areas]_vars

-----------------------------------------------------------------------------
(* Properties of compute_referendum_result_by_regions and                  *)
(* plot_referendum_map, checked under SpecVotes.                           *)

CountColumns == {"Registered", "Abstentions", "Null", "Choice_A", "Choice_B"}

InputRegionCodes ==
    {referendum_and_areas[i].code_reg : i \in Rows(referendum_and_areas)}

ResultRowsOf(c) ==
    {k \in Rows(referendum_results) : referendum_results[k].code_reg = c}

\* The sum of column f over the first n input rows carrying region code c.
RECURSIVE TotalOf(_, _, _)
TotalOf(c, f, n) ==
    IF n = 0 THEN 0
    ELSE TotalOf(c, f, n - 1)
         + (IF referendum_and_areas[n].code_reg = c
            THEN referendum_and_areas[n][f] ELSE 0)

OneRowPerRegionCode ==
    /\ \A k \in Rows(referendum_results) :
          referendum_results[k].code_reg \in InputRegionCodes
    /\ \A c \in InputRegionCodes :
          /\ Cardinality(ResultRowsOf(c)) = 1
          /\ \A k \in ResultRowsOf(c) : \A f \in CountColumns :
                referendum_results[k][f] = TotalOf(c, f, Len(referendum_and_areas))

OneNamePerRegionCode ==
    \A i, j \in Rows(referendum_and_areas) :
        referendum_and_areas[i].code_reg = referendum_and_areas[j].code_reg
            => referendum_and_areas[i].name_reg = referendum_and_areas[j].name_reg

\* C5 as stated: the Regional Aggregator returns exactly one row per region
\* code of its input, holding the sums of the five counts over all the input
\* rows of that code.
C5_OneRowPerRegionCode == pc = "aggregated" => OneRowPerRegionCode

\* C5 amended: when every region code of the input carries a single region
\* name, the Regional Aggregator returns exactly one row per region code of
\* its input, holding the sums of the five counts over all the input rows of
\* that code.
C5_OneRowPerNamedRegionCode ==
    (pc = "aggregated" /\ OneNamePerRegionCode) => OneRowPerRegionCode

\* Two ballot rows summed into one region.
C5_Witness ==
    /\ pc = "aggregated"
    /\ OneNamePerRegionCode
    /\ Len(referendum_and_areas) = 2
    /\ Len(referendum_results) = 1
    /\ referendum_results[1].Choice_A = 200
    /\ referendum_results[1].Choice_B = 300

Matched(row) == ~IsNull(row.name_reg)

\* C6: in the table the Choropleth Renderer returns, a row matched to a
\* region result with Choice A + Choice B > 0 has ratio = Choice A /
\* (Choice A + Choice B), within [0, 1]; every other row has a NaN ratio.
C6_RatioOfChoiceA ==
    pc = "done" =>
        \A i \in Rows(gdf_referendum) :
            LET row == gdf_referendum[i]
            IN  IF Matched(row) /\ row.Choice_A.num + row.Choice_B.num > 0
                THEN /\ row.ratio.den > 0
                     /\ row.ratio.num * (row.Choice_A.num + row.Choice_B.num)
                            = row.Choice_A.num * row.ratio.den
                     /\ row.ratio.num <= row.ratio.den
                ELSE IsFloatNaN(row.ratio)

\* A region of 100 against 300 at a quarter, a region with no expressed
\* ballot and a geometry with no region result.
C6_Witness ==
    /\ pc = "done"
    /\ \E i \in Rows(gdf_referendum) :
          /\ gdf_referendum[i].Choice_A = Float(100)
          /\ gdf_referendum[i].Choice_B = Float(300)
          /\ 4 * gdf_referendum[i].ratio.num = gdf_referendum[i].ratio.den
    /\ \E i \in Rows(gdf_referendum) :
          /\ Matched(gdf_referendum[i])
          /\ gdf_referendum[i].Choice_A = Float(0)
          /\ gdf_referendum[i].Choice_B = Float(0)
          /\ IsFloatNaN(gdf_referendum[i].ratio)
    /\ \E i \in Rows(gdf_referendum) : ~Matched(gdf_referendum[i])

\* C9: when the drawing fails, the caller of plot_referendum_map still
\* receives the joined table with its ratio column.
C9_TableDespiteRenderFailure ==
    raised = "RenderError" =>
        gdf_referendum =
            WithRatio(MergeGeoResults(ReadGeo(regions_geojson), referendum_results))

=============================================================================
